---- MODULE Spec2Model ----
(***************************************************************************)
(* Model of the alias plugin in src/main.py (class AliasService).          *)
(*                                                                         *)
(* Python strings are modelled as sequences of one-character strings, so   *)
(* that strip, startswith, replace and shlex.split are computed character  *)
(* by character as the interpreter computes them.                          *)
(***************************************************************************)
EXTENDS Naturals, Sequences, FiniteSets, TLC

(***************************************************************************)
(* Characters and string primitives                                        *)
(***************************************************************************)
DQ == "\""
SQ == "'"
BS == "\\"

\* str.strip() and shlex treat these as whitespace
Whitespace == {" ", "\t", "\n", "\r"}

\* the literal "{args}" of src/main.py:155
ArgsToken == <<"{", "a", "r", "g", "s", "}">>

\* s[n:]
Drop(s, n) == IF n >= Len(s) THEN <<>> ELSE SubSeq(s, n + 1, Len(s))

\* s[:n]
Take(s, n) == IF n >= Len(s) THEN s ELSE SubSeq(s, 1, n)

\* str.startswith
StartsWith(s, p) == Len(p) <= Len(s) /\ Take(s, Len(p)) = p

RECURSIVE LStrip(_)
LStrip(s) == IF s # <<>> /\ Head(s) \in Whitespace THEN LStrip(Tail(s)) ELSE s

RECURSIVE RStrip(_)
RStrip(s) ==
    IF s # <<>> /\ s[Len(s)] \in Whitespace THEN RStrip(Take(s, Len(s) - 1)) ELSE s

\* str.strip()
Strip(s) == RStrip(LStrip(s))

\* "sub in s"
RECURSIVE Contains(_, _)
Contains(s, sub) ==
    IF StartsWith(s, sub) THEN TRUE
    ELSE IF s = <<>> THEN FALSE
    ELSE Contains(Tail(s), sub)

\* str.replace(old, new) for a non-empty old: leftmost, non-overlapping
RECURSIVE Replace(_, _, _)
Replace(s, old, new) ==
    IF s = <<>> THEN <<>>
    ELSE IF StartsWith(s, old) THEN new \o Replace(Drop(s, Len(old)), old, new)
    ELSE <<Head(s)>> \o Replace(Tail(s), old, new)

(***************************************************************************)
(* shlex.split(commands) (posix mode, whitespace_split, no comments), as    *)
(* called at src/main.py:77.  The lexer state is " " (between tokens),     *)
(* "a" (inside a word), a quote character, or the escape character.        *)
(***************************************************************************)
ShlexInit ==
    [state |-> " ", token |-> <<>>, quoted |-> FALSE, escapedstate |-> "a",
     out |-> <<>>, err |-> FALSE]

ShlexEmit(st, next) ==
    [st EXCEPT !.state = next, !.token = <<>>, !.quoted = FALSE,
               !.out = Append(st.out, st.token)]

ShlexChar(st, c) ==
    IF st.err THEN st
    ELSE IF st.state = " " THEN
        IF c \in Whitespace THEN st
        ELSE IF c = BS THEN [st EXCEPT !.escapedstate = "a", !.state = BS]
        ELSE IF c \in {DQ, SQ} THEN [st EXCEPT !.state = c]
        ELSE [st EXCEPT !.token = <<c>>, !.state = "a"]
    ELSE IF st.state \in {DQ, SQ} THEN
        IF c = st.state THEN [st EXCEPT !.quoted = TRUE, !.state = "a"]
        ELSE IF c = BS /\ st.state = DQ
            THEN [st EXCEPT !.quoted = TRUE, !.escapedstate = st.state, !.state = BS]
        ELSE [st EXCEPT !.quoted = TRUE, !.token = Append(st.token, c)]
    ELSE IF st.state = BS THEN
        IF st.escapedstate \in {DQ, SQ} /\ c # BS /\ c # st.escapedstate
            THEN [st EXCEPT !.token = st.token \o <<BS, c>>, !.state = st.escapedstate]
        ELSE [st EXCEPT !.token = Append(st.token, c), !.state = st.escapedstate]
    ELSE \* st.state = "a"
        IF c \in Whitespace THEN
            IF st.token # <<>> \/ st.quoted THEN ShlexEmit(st, " ")
            ELSE [st EXCEPT !.state = " "]
        ELSE IF c \in {DQ, SQ} THEN [st EXCEPT !.state = c]
        ELSE IF c = BS THEN [st EXCEPT !.escapedstate = "a", !.state = BS]
        ELSE [st EXCEPT !.token = Append(st.token, c)]

\* end of input: "No closing quotation" / "No escaped character" raise ValueError
ShlexEof(st) ==
    IF st.err THEN st
    ELSE IF st.state \in {DQ, SQ, BS} THEN [st EXCEPT !.err = TRUE]
    ELSE IF st.state = "a" /\ (st.token # <<>> \/ st.quoted) THEN ShlexEmit(st, " ")
    ELSE st

RECURSIVE ShlexRun(_, _)
ShlexRun(st, s) ==
    IF s = <<>> THEN ShlexEof(st) ELSE ShlexRun(ShlexChar(st, Head(s)), Tail(s))

\* a variant that splits at whitespace only, as str.split() does
RECURSIVE SplitLoop(_, _, _)
SplitLoop(s, token, out) ==
    IF s = <<>> THEN (IF token = <<>> THEN out ELSE Append(out, token))
    ELSE IF Head(s) \in Whitespace
        THEN SplitLoop(Tail(s), <<>>, IF token = <<>> THEN out ELSE Append(out, token))
    ELSE SplitLoop(Tail(s), Append(token, Head(s)), out)

ShlexSplitPlain(s) == [ShlexInit EXCEPT !.out = SplitLoop(s, <<>>, <<>>)]

\* [err |-> TRUE] when shlex.split raises, else the token list in out
ShlexSplit(s) == ShlexRun(ShlexInit, s)

(***************************************************************************)
(* Grouping of tokens into commands, src/main.py:78-90                     *)
(***************************************************************************)
RECURSIVE GroupLoop(_, _, _)
GroupLoop(tokens, cmds, current_cmd) ==
    IF tokens = <<>> THEN
        IF current_cmd # <<>> THEN Append(cmds, Strip(current_cmd)) ELSE cmds
    ELSE
        LET token == Head(tokens) IN
        IF StartsWith(token, <<"/">>) /\ current_cmd # <<>>
            THEN GroupLoop(Tail(tokens), Append(cmds, Strip(current_cmd)), token)
        ELSE IF current_cmd # <<>>
            THEN GroupLoop(Tail(tokens), cmds, current_cmd \o <<" ">> \o token)
        ELSE GroupLoop(Tail(tokens), cmds, token)

\* a variant that makes every token a command of its own
GroupTokensEach(tokens) == tokens

GroupTokens(tokens) == GroupLoop(tokens, <<>>, <<>>)

(***************************************************************************)
(* State                                                                   *)
(***************************************************************************)
VARIABLES
    store,          \* self._store: the alias table, a list of {name, commands}
    file,           \* alias_store.json on disk
    pendingSaves,   \* alias handlers suspended at their reply, save still to run
    lastOp,         \* the last alias.add / alias.remove call: which handler, its
                    \* commands argument, which reply
    lastSave,       \* how the last save_alias_store call ended, "none" before the first
    queue,          \* the host's event queue (context.get_event_queue())
    calls,          \* the on_message calls made so far, in call order
    qlog            \* every event ever put on the queue, in put order

vars == <<store, file, pendingSaves, lastOp, lastSave, queue, calls, qlog>>

(***************************************************************************)
(* Input alphabets                                                         *)
(***************************************************************************)
NameA     == <<"a">>
NameAB    == <<"a", "b">>
NameHi    == <<"h", "i">>
NameCombo == <<"c", "o", "m", "b", "o">>
NameE     == <<"e">>
\* alias.add takes any string as name, the empty one included (line 62)
NameEmpty == <<>>

\* values of the commands argument of alias.add
CmdGreet   == <<"/", "g", "r", "e", "e", "t", " ", "{", "a", "r", "g", "s", "}">>
CmdCombo   == <<"/", "c", "m", "d", "1", " ", "/", "c", "m", "d", "2", " ",
                "{", "a", "r", "g", "s", "}">>
CmdAB      == <<"a", "b">>
CmdY       == <<"/", "y">>
CmdBlank   == <<DQ, " ", DQ>>
CmdNone    == <<>>
CmdOpen    == <<"/", "y", " ", DQ, "z">>
\* cmd1 "arg with space" ; /cmd2
CmdQuoted  == <<"c", "m", "d", "1", " ", DQ, "a", "r", "g", " ", "w", "i", "t", "h", " ", "s", "p", "a", "c", "e", DQ, " ", ";", " ", "/", "c", "m", "d", "2">>
\* /provider 2 /reset, the example of the docstring (line 69)
CmdProvider == <<"/", "p", "r", "o", "v", "i", "d", "e", "r", " ", "2", " ", "/", "r", "e", "s", "e", "t">>
\* say \"x\\y\": escapes keep a quote and a backslash in the token
CmdEscaped == <<"s", "a", "y", " ", BS, DQ, "x", BS, BS, "y", BS, DQ>>

\* every commands string of at most MaxLen characters over these four
TokenAlphabet == {"/", "a", " ", DQ}
StringsUpTo(n) == UNION {[1..k -> TokenAlphabet] : k \in 0..n}

\* message texts the host delivers
MsgAB      == <<"a", "b">>
MsgHiThere == <<"h", "i", " ", "t", "h", "e", "r", "e">>
MsgHiPad   == <<" ", "h", "i", " ">>
MsgCombo   == <<"c", "o", "m", "b", "o", " ", "x", " ", "y">>
MsgSayHi   == <<"s", "a", "y", " ", "h", "i">>
MsgEX      == <<"e", " ", "x">>

Messages == {MsgAB, MsgHiThere, MsgHiPad, MsgCombo, MsgSayHi, MsgEX}
Sessions == {"s1", "s2"}

\* at most this many on_message calls in one behaviour
MaxCalls == 3
\* at most this many alias handlers suspended between reply and save
MaxPending == 2
\* the longest commands string that is enumerated
MaxLen == 3

(***************************************************************************)
(* The alias table: src/main.py:92-105 and 113-114                         *)
(***************************************************************************)
HasName(table, name) == \E i \in 1..Len(table) : table[i].name = name

\* for alias in self._store: if alias.get("name") == name: ...; break
RECURSIVE UpdateFirst(_, _, _)
UpdateFirst(table, name, cmds) ==
    IF table = <<>> THEN <<>>
    ELSE IF Head(table).name = name
        THEN <<[name |-> name, commands |-> cmds]>> \o Tail(table)
    ELSE <<Head(table)>> \o UpdateFirst(Tail(table), name, cmds)

\* a variant that never looks for the name
UpsertAppends(table, name, cmds) == Append(table, [name |-> name, commands |-> cmds])

\* update in place when the name is present, otherwise append
\* a variant that drops the old entry and appends the new one
UpsertMovesToEnd(table, name, cmds) ==
    Append(SelectSeq(table, LAMBDA alias : alias.name # name),
           [name |-> name, commands |-> cmds])

Upsert(table, name, cmds) ==
    IF HasName(table, name) THEN UpdateFirst(table, name, cmds)
    ELSE Append(table, [name |-> name, commands |-> cmds])

\* a variant with the comparison inverted
RemoveNameInverted(table, name) == SelectSeq(table, LAMBDA alias : alias.name = name)

\* [alias for alias in self._store if alias.get("name") != name]
RemoveName(table, name) == SelectSeq(table, LAMBDA alias : alias.name # name)

(***************************************************************************)
(* The file format: json.dump(self._store, f, ensure_ascii=False,          *)
(* indent=4) at src/main.py:36 and json.load(f) at src/main.py:24, for a   *)
(* list of {"name": str, "commands": [str, ...]}                           *)
(***************************************************************************)
Spaces(n) == [i \in 1..n |-> " "]

JsonEscapeChar(c) ==
    CASE c = DQ -> <<BS, DQ>>
      [] c = BS -> <<BS, BS>>
      [] c = "\n" -> <<BS, "n">>
      [] c = "\r" -> <<BS, "r">>
      [] c = "\t" -> <<BS, "t">>
      [] OTHER -> <<c>>

RECURSIVE JsonEscape(_)
JsonEscape(str) ==
    IF str = <<>> THEN <<>> ELSE JsonEscapeChar(Head(str)) \o JsonEscape(Tail(str))

\* a variant that writes the characters as they are
JsonStringRaw(str) == <<DQ>> \o str \o <<DQ>>

JsonString(str) == <<DQ>> \o JsonEscape(str) \o <<DQ>>

\* the items, each on its own line at the given indentation
RECURSIVE JsonLines(_, _)
JsonLines(items, indent) ==
    IF items = <<>> THEN <<>>
    ELSE Spaces(indent) \o Head(items)
         \o (IF Len(items) > 1 THEN <<",", "\n">> ELSE <<"\n">>)
         \o JsonLines(Tail(items), indent)

JsonArray(items, indent) ==
    IF items = <<>> THEN <<"[", "]">>
    ELSE <<"[", "\n">> \o JsonLines(items, indent + 4) \o Spaces(indent) \o <<"]">>

JsonKey(key) == JsonString(key) \o <<":", " ">>

KeyName == <<"n", "a", "m", "e">>
KeyCommands == <<"c", "o", "m", "m", "a", "n", "d", "s">>

JsonAlias(alias) ==
    <<"{", "\n">>
    \o JsonLines(<< JsonKey(KeyName) \o JsonString(alias.name),
                    JsonKey(KeyCommands)
                        \o JsonArray([i \in 1..Len(alias.commands) |->
                                          JsonString(alias.commands[i])], 8) >>, 8)
    \o Spaces(4) \o <<"}">>

\* json.dump
JsonDump(table) == JsonArray([i \in 1..Len(table) |-> JsonAlias(table[i])], 0)

\* the parser: each step yields [ok, val, rest]
JsonFail == [ok |-> FALSE, val |-> <<>>, rest |-> <<>>]

RECURSIVE JsonSkip(_)
JsonSkip(s) == IF s # <<>> /\ Head(s) \in Whitespace THEN JsonSkip(Tail(s)) ELSE s

JsonUnescape(c) ==
    CASE c = "n" -> "\n" [] c = "r" -> "\r" [] c = "t" -> "\t" [] OTHER -> c

\* the characters of a string, after its opening quote
RECURSIVE JsonStringBody(_, _)
JsonStringBody(s, acc) ==
    IF s = <<>> THEN JsonFail
    ELSE IF Head(s) = DQ THEN [ok |-> TRUE, val |-> acc, rest |-> Tail(s)]
    ELSE IF Head(s) = BS THEN
        IF Len(s) < 2 \/ s[2] \notin {DQ, BS, "/", "n", "r", "t"} THEN JsonFail
        ELSE JsonStringBody(Drop(s, 2), Append(acc, JsonUnescape(s[2])))
    ELSE IF Head(s) \in {"\n", "\r", "\t"} THEN JsonFail
    ELSE JsonStringBody(Tail(s), Append(acc, Head(s)))

JsonParseString(s) ==
    IF s # <<>> /\ Head(s) = DQ THEN JsonStringBody(Tail(s), <<>>) ELSE JsonFail

\* the elements of an array of strings, after "[" or ","
RECURSIVE JsonStringItems(_, _)
JsonStringItems(s, acc) ==
    LET item == JsonParseString(JsonSkip(s)) IN
    IF ~item.ok THEN JsonFail
    ELSE LET after == JsonSkip(item.rest) IN
        IF after = <<>> THEN JsonFail
        ELSE IF Head(after) = "," THEN JsonStringItems(Tail(after), Append(acc, item.val))
        ELSE IF Head(after) = "]"
            THEN [ok |-> TRUE, val |-> Append(acc, item.val), rest |-> Tail(after)]
        ELSE JsonFail

JsonParseStrings(s) ==
    IF s = <<>> \/ Head(s) # "[" THEN JsonFail
    ELSE LET inner == JsonSkip(Tail(s)) IN
        IF inner # <<>> /\ Head(inner) = "]"
            THEN [ok |-> TRUE, val |-> <<>>, rest |-> Tail(inner)]
        ELSE JsonStringItems(inner, <<>>)

\* the members of an object, after "{" or ","; seen holds the keys read so far
RECURSIVE JsonMembers(_, _, _)
JsonMembers(s, alias, seen) ==
    LET key == JsonParseString(JsonSkip(s)) IN
    IF ~key.ok \/ key.val \notin {KeyName, KeyCommands} THEN JsonFail
    ELSE LET colon == JsonSkip(key.rest) IN
        IF colon = <<>> \/ Head(colon) # ":" THEN JsonFail
        ELSE LET value == IF key.val = KeyName
                              THEN JsonParseString(JsonSkip(Tail(colon)))
                              ELSE JsonParseStrings(JsonSkip(Tail(colon)))
             IN
             IF ~value.ok THEN JsonFail
             ELSE LET next == IF key.val = KeyName
                                  THEN [alias EXCEPT !.name = value.val]
                                  ELSE [alias EXCEPT !.commands = value.val]
                      after == JsonSkip(value.rest)
                  IN
                  IF after = <<>> THEN JsonFail
                  ELSE IF Head(after) = ","
                      THEN JsonMembers(Tail(after), next, seen \cup {key.val})
                  ELSE IF Head(after) = "}" /\ seen \cup {key.val} = {KeyName, KeyCommands}
                      THEN [ok |-> TRUE, val |-> next, rest |-> Tail(after)]
                  ELSE JsonFail

JsonParseAlias(s) ==
    IF s = <<>> \/ Head(s) # "{" THEN JsonFail
    ELSE JsonMembers(Tail(s), [name |-> <<>>, commands |-> <<>>], {})

\* the elements of the top-level array, after "[" or ","
RECURSIVE JsonAliasItems(_, _)
JsonAliasItems(s, acc) ==
    LET item == JsonParseAlias(JsonSkip(s)) IN
    IF ~item.ok THEN JsonFail
    ELSE LET after == JsonSkip(item.rest) IN
        IF after = <<>> THEN JsonFail
        ELSE IF Head(after) = "," THEN JsonAliasItems(Tail(after), Append(acc, item.val))
        ELSE IF Head(after) = "]"
            THEN [ok |-> TRUE, val |-> Append(acc, item.val), rest |-> Tail(after)]
        ELSE JsonFail

\* json.load: ok is FALSE when it raises
JsonLoad(text) ==
    LET s == JsonSkip(text) IN
    IF s = <<>> \/ Head(s) # "[" THEN JsonFail
    ELSE LET inner == JsonSkip(Tail(s))
             table == IF inner # <<>> /\ Head(inner) = "]"
                          THEN [ok |-> TRUE, val |-> <<>>, rest |-> Tail(inner)]
                          ELSE JsonAliasItems(inner, <<>>)
         IN  IF table.ok /\ JsonSkip(table.rest) = <<>> THEN table ELSE JsonFail

(***************************************************************************)
(* Persistence: src/main.py:20-39                                          *)
(***************************************************************************)
\* os.path.exists(self.alias_file) is false
FileAbsent == [state |-> "absent", data |-> <<>>]

\* the file as a completed save of table leaves it
FileOf(table) == [state |-> "ok", data |-> JsonDump(table)]

\* the file as a write that stopped after n characters leaves it
FileCut(table, n) == [state |-> "partial", data |-> Take(JsonDump(table), n)]

\* load_alias_store: [] when the file is missing or json.load raises
load_alias_store(f) ==
    IF f.state = "absent" THEN <<>>
    ELSE LET loaded == JsonLoad(f.data) IN IF loaded.ok THEN loaded.val ELSE <<>>

\* save_alias_store: open(..., "w") truncates the file, json.dump writes it; any
\* exception is caught and logged.  The outcome is the environment's: the
\* write completes, open raises (file untouched), json.dump raises before any
\* character reaches the file, or the write stops part of the way.
SaveOutcomes == {"ok", "open_failed", "dump_failed", "write_failed"}

save_alias_store(f, table, outcome) ==
    CASE outcome = "ok" -> FileOf(table)
      [] outcome = "open_failed" -> f
      [] outcome = "dump_failed" -> FileCut(table, 0)
      [] outcome = "write_failed" -> FileCut(table, Len(JsonDump(table)) \div 2)

(***************************************************************************)
(* alias.add and alias.remove: src/main.py:61-120                          *)
(* Both handlers are async generators: they change self._store, yield the  *)
(* reply (the handler is suspended there while the host sends it) and save *)
(* when resumed.  A suspended handler has only self.save_alias_store()     *)
(* left to run, so the suspended handlers are counted in pendingSaves.     *)
(***************************************************************************)
AddNames == {NameA, NameEmpty}
RemoveNames == {NameA, NameEmpty, NameHi}
AddCommands == {CmdGreet, CmdCombo, CmdNone, CmdOpen}

NoOp == [op |-> "none", commands |-> <<>>, reply |-> "none"]

\* lines 72-107: the reply, the command list and the table the call leaves
alias_add_result(table, name, commands) ==
    IF commands = <<>>
        THEN [reply |-> "need_commands", cmds |-> <<>>, table |-> table, save |-> FALSE]
    ELSE LET lexed == ShlexSplit(commands) IN
        IF lexed.err
            THEN [reply |-> "raised", cmds |-> <<>>, table |-> table, save |-> FALSE]
        ELSE LET cmds == GroupTokens(lexed.out) IN
            [reply |-> IF HasName(table, name) THEN "updated" ELSE "added",
             cmds |-> cmds, table |-> Upsert(table, name, cmds), save |-> TRUE]

alias_add(name, commands) ==
    LET r == alias_add_result(store, name, commands) IN
    /\ r.save => pendingSaves < MaxPending
    /\ store' = r.table
    /\ pendingSaves' = IF r.save THEN pendingSaves + 1 ELSE pendingSaves
    /\ lastOp' = [op |-> "add", commands |-> commands, reply |-> r.reply]
    /\ UNCHANGED <<file, lastSave, queue, calls, qlog>>

\* a variant that never asks for the save
alias_remove_result_unsaved(table, name) ==
    [reply |-> IF HasName(table, name) THEN "removed" ELSE "not_found",
     table |-> SelectSeq(table, LAMBDA alias : alias.name # name), save |-> FALSE]

\* lines 113-120
alias_remove_result(table, name) ==
    LET after == RemoveName(table, name) IN
    IF Len(after) < Len(table)
        THEN [reply |-> "removed", table |-> after, save |-> TRUE]
        ELSE [reply |-> "not_found", table |-> after, save |-> FALSE]

alias_remove(name) ==
    LET r == alias_remove_result(store, name) IN
    /\ r.save => pendingSaves < MaxPending
    /\ store' = r.table
    /\ pendingSaves' = IF r.save THEN pendingSaves + 1 ELSE pendingSaves
    /\ lastOp' = [op |-> "remove", commands |-> <<>>, reply |-> r.reply]
    /\ UNCHANGED <<file, lastSave, queue, calls, qlog>>

\* a suspended handler is resumed and runs self.save_alias_store() (108, 118)
handler_save(outcome) ==
    /\ pendingSaves > 0
    /\ pendingSaves' = pendingSaves - 1
    /\ file' = save_alias_store(file, store, outcome)
    /\ lastSave' = outcome
    /\ UNCHANGED <<store, lastOp, queue, calls, qlog>>

\* alias.add from the call to its return, the host resuming it at once
alias_add_run(name, commands, outcome) ==
    LET r == alias_add_result(store, name, commands) IN
    /\ pendingSaves = 0
    /\ store' = r.table
    /\ file' = IF r.save THEN save_alias_store(file, r.table, outcome) ELSE file
    /\ lastSave' = IF r.save THEN outcome ELSE lastSave
    /\ lastOp' = [op |-> "add", commands |-> commands, reply |-> r.reply]
    /\ UNCHANGED <<pendingSaves, queue, calls, qlog>>

\* alias.remove from the call to its return, the host resuming it at once
alias_remove_run(name, outcome) ==
    LET r == alias_remove_result(store, name) IN
    /\ pendingSaves = 0
    /\ store' = r.table
    /\ file' = IF r.save THEN save_alias_store(file, r.table, outcome) ELSE file
    /\ lastSave' = IF r.save THEN outcome ELSE lastSave
    /\ lastOp' = [op |-> "remove", commands |-> <<>>, reply |-> r.reply]
    /\ UNCHANGED <<pendingSaves, queue, calls, qlog>>

(***************************************************************************)
(* on_message: src/main.py:131-168                                         *)
(***************************************************************************)
\* for alias in self._store: if message.startswith(alias_name): ...; return
\* the 1-based position of the alias that is expanded, 0 when the loop ends
RECURSIVE MatchFrom(_, _, _)
MatchFrom(table, message, i) ==
    IF i > Len(table) THEN 0
    ELSE IF StartsWith(message, table[i].name) THEN i
    ELSE MatchFrom(table, message, i + 1)

\* a variant that prefers the longest matching name
LongestMatch(table, message) ==
    LET hits == {i \in 1..Len(table) : StartsWith(message, table[i].name)} IN
    IF hits = {} THEN 0
    ELSE CHOOSE i \in hits :
            \A j \in hits : \/ Len(table[j].name) < Len(table[i].name)
                             \/ (Len(table[j].name) = Len(table[i].name) /\ i <= j)

\* a variant that tests "alias_name in message" instead of startswith
SubstringMatch(table, message) ==
    LET hits == {i \in 1..Len(table) : Contains(message, table[i].name)} IN
    IF hits = {} THEN 0 ELSE CHOOSE i \in hits : \A j \in hits : i <= j

FirstMatch(table, message) == MatchFrom(table, message, 1)

\* line 148: message[len(alias_name):].strip()
RemainingArgs(message, alias_name) == Strip(Drop(message, Len(alias_name)))

\* a variant that appends nothing to a command without a placeholder
FullCommandNoAppend(cmd, remaining_args) ==
    IF Contains(cmd, ArgsToken) THEN Replace(cmd, ArgsToken, remaining_args)
    ELSE Strip(cmd)

\* line 155
FullCommand(cmd, remaining_args) ==
    IF Contains(cmd, ArgsToken) THEN Replace(cmd, ArgsToken, remaining_args)
    ELSE Strip(cmd \o <<" ">> \o remaining_args)

\* line 139: getattr(event, '_alias_processed', False)
IsProcessed(event) == event.alias_processed

\* line 165: the flag given to every event on_message constructs
NewEventFlag == FALSE

\* lines 158-165; parent and k record which call built the event, and for
\* which position of the command list
NewEvent(event, full_command, parent, k) ==
    [message_str |-> full_command, session_id |-> event.session_id,
     alias_processed |-> NewEventFlag, parent |-> parent, k |-> k]

\* an event of the host's own: no _alias_processed attribute
RawEvent(text, session) ==
    [message_str |-> text, session_id |-> session, alias_processed |-> FALSE,
     parent |-> 0, k |-> 0]

\* a variant that puts at the head
QueuePutFront(q, e) == <<e>> \o q

\* line 167: asyncio.Queue.put appends at the tail
QueuePut(q, e) == Append(q, e)

\* a variant that calls stop_event() after the loop
StopEventLate(point) == point = "return"

\* where on_message calls event.stop_event(): line 151, after the match and
\* before the loop over the commands
StopEventAt(point) == point = "match"

StopCount(point) == IF StopEventAt(point) THEN 1 ELSE 0

\* lines 139-152: from the call to the first await (or to the return)
OnMessageEnter(event, table) ==
    LET message == Strip(event.message_str)
        m == IF IsProcessed(event) THEN 0 ELSE FirstMatch(table, message)
    IN  IF m = 0
        THEN [event |-> event, table |-> table, matched |-> 0, alias_name |-> <<>>,
              commands |-> <<>>, remaining_args |-> <<>>, idx |-> 0, stops |-> 0,
              pc |-> "done"]
        ELSE [event |-> event, table |-> table, matched |-> m,
              alias_name |-> table[m].name, commands |-> table[m].commands,
              remaining_args |-> RemainingArgs(message, table[m].name), idx |-> 0,
              stops |-> StopCount("match")
                        + (IF table[m].commands = <<>> THEN StopCount("return") ELSE 0),
              pc |-> IF table[m].commands = <<>> THEN "done" ELSE "put"]

\* the host hands a message of its own to on_message
on_message_raw(text, session) ==
    /\ Len(calls) < MaxCalls
    /\ calls' = Append(calls, OnMessageEnter(RawEvent(text, session), store))
    /\ UNCHANGED <<store, file, pendingSaves, lastOp, lastSave, queue, qlog>>

\* the host takes the next event off the queue and hands it to on_message
on_message_queued ==
    /\ Len(calls) < MaxCalls
    /\ queue # <<>>
    /\ queue' = Tail(queue)
    /\ calls' = Append(calls, OnMessageEnter(Head(queue), store))
    /\ UNCHANGED <<store, file, pendingSaves, lastOp, lastSave, qlog>>

\* a variant that reads the k-th command from the table as it is at the resumption
CommandAtLive(c, table, k) ==
    LET at == {j \in 1..Len(table) : table[j].name = c.alias_name} IN
    IF at # {} /\ k <= Len(table[CHOOSE j \in at : TRUE].commands)
        THEN table[CHOOSE j \in at : TRUE].commands[k]
        ELSE IF at = {} THEN <<>> ELSE c.commands[k]

\* line 153: the loop iterates the list object that alias["commands"] named
\* when the loop began; line 96 rebinds the key and line 114 builds a new
\* table, neither changes that list
CommandAt(c, table, k) == c.commands[k]

\* lines 153-167: one iteration of the loop, resumed at the await of put.
\* Other coroutines may run at each await; a put that does not suspend is the
\* behaviour in which the call's steps follow each other directly.
on_message_put(i) ==
    /\ i \in 1..Len(calls)
    /\ calls[i].pc = "put"
    /\ LET c == calls[i]
           k == c.idx + 1
           last == k = Len(c.commands)
           new_event == NewEvent(c.event,
                       FullCommand(CommandAt(c, store, k), c.remaining_args), i, k)
       IN  /\ queue' = QueuePut(queue, new_event)
           /\ qlog' = Append(qlog, new_event)
           /\ calls' = [calls EXCEPT ![i] =
                  [c EXCEPT !.idx = k,
                            !.stops = c.stops + StopCount("put")
                                      + (IF last THEN StopCount("return") ELSE 0),
                            !.pc = IF last THEN "done" ELSE "put"]]
    /\ UNCHANGED <<store, file, pendingSaves, lastOp, lastSave>>

(***************************************************************************)
(* Specifications                                                          *)
(***************************************************************************)
\* the table a sequence of successful alias.add calls leaves
RECURSIVE TableAfter(_, _)
TableAfter(table, adds) ==
    IF adds = <<>> THEN table
    ELSE TableAfter(alias_add_result(table, adds[1][1], adds[1][2]).table, Tail(adds))

\* alias files left by earlier runs of the plugin
SavedFiles ==
    {FileAbsent} \cup
    {FileOf(TableAfter(<<>>, adds)) : adds \in {
        <<<<NameHi, CmdGreet>>>>,
        <<<<NameCombo, CmdCombo>>>>,
        <<<<NameA, CmdAB>>, <<NameAB, CmdY>>>>,
        <<<<NameE, CmdBlank>>, <<NameHi, CmdY>>>> }}

\* __init__ (lines 11-18): the table is loaded from the file
InitFrom(f) ==
    /\ file = f
    /\ store = load_alias_store(f)
    /\ pendingSaves = 0
    /\ lastOp = NoOp
    /\ lastSave = "none"
    /\ queue = <<>>
    /\ calls = <<>>
    /\ qlog = <<>>

\* message dispatch over the table a previous run saved
Init == \E f \in SavedFiles : InitFrom(f)

Next ==
    \/ \E text \in Messages, session \in Sessions : on_message_raw(text, session)
    \/ on_message_queued
    \/ \E i \in 1..MaxCalls : on_message_put(i)

Spec == Init /\ [][Next]_vars

\* the alias commands, on a fresh installation or over a one-alias file
InitStore ==
    \E f \in {FileAbsent, FileOf(TableAfter(<<>>, <<<<NameHi, CmdGreet>>>>))} : InitFrom(f)

NextStore ==
    \/ \E name \in AddNames, commands \in AddCommands : alias_add(name, commands)
    \/ \E name \in RemoveNames : alias_remove(name)
    \/ \E outcome \in SaveOutcomes : handler_save(outcome)

SpecStore == InitStore /\ [][NextStore]_vars

\* alias.add of a new name over every short commands string, and its removal,
\* each handler run to its end
TokenCommands == StringsUpTo(MaxLen) \cup {CmdQuoted, CmdProvider, CmdEscaped}
TokenNames == {NameA}
TokenOutcomes == {"ok"}

NextTokens ==
    \/ \E name \in TokenNames, commands \in TokenCommands, outcome \in TokenOutcomes :
          ~HasName(store, name) /\ alias_add_run(name, commands, outcome)
    \/ \E name \in TokenNames, outcome \in TokenOutcomes : alias_remove_run(name, outcome)

SpecTokens == InitStore /\ [][NextTokens]_vars

\* one message of the alias "combo" and the redelivery of its expansions,
\* interleaved with alias.add and alias.remove calls on that alias
MixedCommands == {CmdGreet, CmdProvider}

InitMixed == InitFrom(FileOf(TableAfter(<<>>, <<<<NameCombo, CmdCombo>>>>)))

NextMixed ==
    \/ calls = <<>> /\ on_message_raw(MsgCombo, "s1")
    \/ on_message_queued
    \/ \E i \in 1..MaxCalls : on_message_put(i)
    \/ \E commands \in MixedCommands : alias_add_run(NameCombo, commands, "ok")
    \/ alias_remove_run(NameCombo, "ok")

SpecMixed == InitMixed /\ [][NextMixed]_vars

(***************************************************************************)
(* Vocabulary of the properties                                            *)
(***************************************************************************)
\* p is a character prefix of s
IsPrefix(p, s) == Len(p) <= Len(s) /\ \A j \in 1..Len(p) : s[j] = p[j]

\* the positions of the table whose name is name
PositionsOf(table, name) == {i \in 1..Len(table) : table[i].name = name}

\* the events call i has put on the queue, in put order
PutsOf(i) == SelectSeq(qlog, LAMBDA e : e.parent = i)

TextsOf(i) == [n \in 1..Len(PutsOf(i)) |-> PutsOf(i)[n].message_str]

\* after keeps exactly the entries of before not named name, in the same order
KeepsOthers(before, after, name) ==
    LET kept == {i \in 1..Len(before) : before[i].name # name} IN
    /\ Len(after) = Cardinality(kept)
    /\ \A i \in kept :
          after[Cardinality({j \in kept : j <= i})] = before[i]

(***************************************************************************)
(* Vocabulary of the dispatch properties                                   *)
(***************************************************************************)
CallIds == 1..Len(calls)

\* the stripped text on_message works on
TextOf(i) == Strip(calls[i].event.message_str)

\* the positions of the table call i saw whose name is a prefix of its text
HitsOf(i) ==
    {j \in 1..Len(calls[i].table) : IsPrefix(calls[i].table[j].name, TextOf(i))}

\* the call of the host's own message that call i descends from
RECURSIVE RootOf(_)
RootOf(i) == IF calls[i].event.parent = 0 THEN i ELSE RootOf(calls[i].event.parent)

\* the number of events enqueued on behalf of the raw input of call r
EnqueuedFor(r) == Cardinality({n \in 1..Len(qlog) : RootOf(qlog[n].parent) = r})

(***************************************************************************)
(* C1: an event that on_message enqueued is skipped when it is delivered   *)
(* to on_message: no stop_event on it and no further event enqueued for it.*)
(***************************************************************************)
C1_ExpandedNeverMatched ==
    \A i \in CallIds :
        calls[i].event.parent # 0 =>
            /\ calls[i].matched = 0
            /\ calls[i].stops = 0
            /\ Len(PutsOf(i)) = 0

(***************************************************************************)
(* C2: the events enqueued for one raw input are at most the commands of   *)
(* the one alias it matched, so the queue drains once they are delivered.  *)
(***************************************************************************)
C2_BoundedExpansion ==
    \A r \in CallIds :
        calls[r].event.parent = 0 => EnqueuedFor(r) <= Len(calls[r].commands)

(***************************************************************************)
(* C3: an unflagged message expands exactly one alias, the first in the    *)
(* table's order whose name is a prefix of the stripped text, also when a  *)
(* later alias with a longer name is a prefix too: with aliases "a" then   *)
(* "ab" the input "ab" expands "a" with args "b".                          *)
(***************************************************************************)
C3_FirstPrefixWins ==
    \A i \in CallIds :
        LET c == calls[i] IN
        ~c.event.alias_processed =>
            /\ HitsOf(i) = {} => c.matched = 0
            /\ HitsOf(i) # {} =>
                  /\ c.matched \in HitsOf(i)
                  /\ \A j \in HitsOf(i) : c.matched <= j
                  /\ c.alias_name = c.table[c.matched].name
                  /\ c.commands = c.table[c.matched].commands
                  /\ Len(PutsOf(i)) <= Len(c.commands)
                  /\ \A n \in 1..Len(PutsOf(i)) :
                        PutsOf(i)[n].message_str
                            = FullCommand(c.commands[n], c.remaining_args)
            /\ ( /\ Len(c.table) = 2
                 /\ c.table[1].name = NameA
                 /\ c.table[2].name = NameAB
                 /\ TextOf(i) = MsgAB )
                  => c.alias_name = NameA /\ c.remaining_args = <<"b">>

\* "ab" was expanded through "a" although "ab" is registered after it
C3_Witness ==
    \E i \in CallIds :
        /\ calls[i].pc = "done"
        /\ calls[i].event.parent = 0
        /\ TextOf(i) = MsgAB
        /\ calls[i].matched = 1
        /\ 2 \in HitsOf(i)
        /\ calls[i].remaining_args = <<"b">>
        /\ Len(PutsOf(i)) = 1

(***************************************************************************)
(* C4: on a match, with args the stripped rest of the text after the alias *)
(* name, on_message emits one text per command, in order: the command with *)
(* every {args} replaced by args when it holds {args}, otherwise the       *)
(* command, one space and args (the command alone when args is empty).     *)
(***************************************************************************)
C4_ClaimedText(cmd, args) ==
    IF Contains(cmd, ArgsToken) THEN Replace(cmd, ArgsToken, args)
    ELSE IF args = <<>> THEN cmd
    ELSE cmd \o <<" ">> \o args

\* C4: every text emitted on a match is the claimed expansion of its command
C4_ExpansionTexts ==
    \A i \in CallIds :
        LET c == calls[i]
            args == Strip(Drop(TextOf(i), Len(c.alias_name)))
        IN  c.matched # 0 =>
                /\ Len(PutsOf(i)) <= Len(c.commands)
                /\ c.pc = "done" => Len(PutsOf(i)) = Len(c.commands)
                /\ \A n \in 1..Len(PutsOf(i)) :
                      PutsOf(i)[n].message_str = C4_ClaimedText(c.commands[n], args)

(***************************************************************************)
(* C5: for the alias combo -> ["/cmd1", "/cmd2 {args}"] and the input      *)
(* "combo x y".  As claimed, the texts emitted are "/cmd1" and "/cmd2 x y".*)
(* As the code has it, the command without a placeholder gets the          *)
(* arguments appended: "/cmd1 x y" and "/cmd2 x y", in that order.         *)
(***************************************************************************)
ComboCommands ==
    << <<"/", "c", "m", "d", "1">>,
       <<"/", "c", "m", "d", "2", " ", "{", "a", "r", "g", "s", "}">> >>

C5_ComboCall(i) ==
    /\ calls[i].pc = "done"
    /\ ~calls[i].event.alias_processed
    /\ TextOf(i) = MsgCombo
    /\ calls[i].alias_name = NameCombo
    /\ \E j \in 1..Len(calls[i].table) :
          calls[i].table[j] = [name |-> NameCombo, commands |-> ComboCommands]

\* C5 as claimed: "/cmd1" is emitted without the arguments
C5_ComboWithoutArgs ==
    \A i \in CallIds :
        C5_ComboCall(i) =>
            TextsOf(i) = << <<"/", "c", "m", "d", "1">>,
                            <<"/", "c", "m", "d", "2", " ", "x", " ", "y">> >>

\* C5 amended: "combo x y" emits "/cmd1 x y" then "/cmd2 x y"
C5_ComboAppendsArgs ==
    \A i \in CallIds :
        C5_ComboCall(i) =>
            TextsOf(i) = << <<"/", "c", "m", "d", "1", " ", "x", " ", "y">>,
                            <<"/", "c", "m", "d", "2", " ", "x", " ", "y">> >>

\* "combo x y" has been expanded to the end
C5_Witness == \E i \in CallIds : C5_ComboCall(i) /\ Len(PutsOf(i)) = 2

(***************************************************************************)
(* C6: on a match on_message calls stop_event on the event exactly once,   *)
(* and before the first expanded command is put on the queue.              *)
(***************************************************************************)
C6_StopOnceBeforePuts ==
    \A i \in CallIds :
        calls[i].matched # 0 =>
            /\ calls[i].stops <= 1
            /\ Len(PutsOf(i)) > 0 => calls[i].stops = 1
            /\ calls[i].pc = "done" => calls[i].stops = 1

\* an alias of two commands is half expanded, the event already stopped
C6_Witness ==
    \E i \in CallIds :
        /\ calls[i].pc = "put"
        /\ Len(calls[i].commands) = 2
        /\ Len(PutsOf(i)) = 1
        /\ calls[i].stops = 1

(***************************************************************************)
(* C7: the events of one input enter the queue in the order of the alias's *)
(* command list, none skipped or duplicated, also when the puts of two     *)
(* inputs interleave; each carries the session id of its own input; the    *)
(* queue keeps the order of the puts.                                      *)
(***************************************************************************)
C7_ListOrder ==
    /\ \A i \in CallIds :
          LET c == calls[i] IN
          /\ Len(PutsOf(i)) = c.idx
          /\ c.pc = "done" => c.idx = Len(c.commands)
          /\ \A n \in 1..Len(PutsOf(i)) :
                /\ PutsOf(i)[n].k = n
                /\ PutsOf(i)[n].message_str = FullCommand(c.commands[n], c.remaining_args)
                /\ PutsOf(i)[n].session_id = c.event.session_id
    /\ Len(queue) <= Len(qlog)
    /\ \A n \in 1..Len(queue) : queue[n] = qlog[Len(qlog) - Len(queue) + n]

\* two inputs of different sessions, their puts interleaved
C7_Witness ==
    \E p, q, r \in 1..Len(qlog) :
        /\ p < q /\ q < r
        /\ qlog[p].parent = qlog[r].parent
        /\ qlog[q].parent # qlog[p].parent
        /\ qlog[q].session_id # qlog[p].session_id
        /\ Len(queue) = Len(qlog)

(***************************************************************************)
(* C8: when no alias name of the table is a prefix of the stripped text,   *)
(* on_message does nothing: no stop_event, no event enqueued, the table    *)
(* and the file as they were.                                              *)
(***************************************************************************)
C8_NoMatchCalls ==
    \A i \in CallIds :
        HitsOf(i) = {} =>
            /\ calls[i].stops = 0
            /\ calls[i].pc = "done"
            /\ Len(PutsOf(i)) = 0

\* C8: a call whose text no alias name prefixes stops nothing, enqueues
\* nothing and leaves the table and the file alone
C8_NoMatchNoEffect ==
    /\ C8_NoMatchCalls
    /\ [][/\ C8_NoMatchCalls'
          /\ ( /\ Len(calls') > Len(calls)
               /\ \A j \in 1..Len(store) :
                     ~IsPrefix(store[j].name, Strip(calls'[Len(calls')].event.message_str)) )
              =>
                /\ store' = store
                /\ file' = file
                /\ qlog' = qlog
                /\ Len(queue') <= Len(queue)]_vars

\* a message that holds an alias name, but not at its start, went unmatched
C8_Witness ==
    \E i \in CallIds :
        /\ calls[i].table # <<>>
        /\ TextOf(i) = MsgSayHi
        /\ \E j \in 1..Len(calls[i].table) : calls[i].table[j].name = NameHi
        /\ calls[i].pc = "done"
        /\ calls[i].stops = 0

(***************************************************************************)
(* C9: the alias table never holds two entries of one name, and right      *)
(* after a successful alias.add(name, commands) it holds exactly one entry *)
(* for name, with the command list made from that call's commands; the     *)
(* same add repeated leaves the table as it is.                            *)
(***************************************************************************)
C9_UniqueNames ==
    \A i, j \in 1..Len(store) : store[i].name = store[j].name => i = j

C9_AddStep(name, commands) ==
    LET cmds == GroupTokens(ShlexSplit(commands).out) IN
    (alias_add(name, commands) /\ lastOp'.reply \in {"added", "updated"}) =>
        /\ Cardinality(PositionsOf(store', name)) = 1
        /\ \A i \in PositionsOf(store', name) : store'[i].commands = cmds
        /\ (\E i \in PositionsOf(store, name) : store[i].commands = cmds)
              => store' = store

\* C9: names stay unique, and a successful add leaves exactly one entry for
\* its name, holding its command list
C9_UpsertOneEntry ==
    /\ C9_UniqueNames
    /\ [][/\ C9_UniqueNames'
          /\ \A name \in AddNames, commands \in AddCommands :
                C9_AddStep(name, commands)]_vars

\* an alias was re-added with other commands while two more aliases exist
C9_Witness ==
    /\ lastOp.op = "add" /\ lastOp.reply = "updated"
    /\ Len(store) = 3
    /\ \E i \in 1..Len(store) :
          store[i].name = NameA /\ store[i].commands = GroupTokens(ShlexSplit(CmdCombo).out)

(***************************************************************************)
(* C10: after alias.remove(name) the table has no entry named name and     *)
(* every other entry is kept, with its commands, in the same relative      *)
(* order; removing a name that is not in the table replies "not found" and *)
(* leaves the table and the file as they are.                              *)
(***************************************************************************)
C10_RemoveStep(name) ==
    alias_remove(name) =>
        /\ PositionsOf(store', name) = {}
        /\ KeepsOthers(store, store', name)
        /\ PositionsOf(store, name) = {} =>
              /\ lastOp'.reply = "not_found"
              /\ store' = store
              /\ file' = file
        /\ PositionsOf(store, name) # {} => lastOp'.reply = "removed"

\* C10: every alias.remove step removes the name, keeps the rest in order,
\* and changes nothing when the name is absent
C10_RemoveIdempotent == [][\A name \in RemoveNames : C10_RemoveStep(name)]_vars

\* the middle one of three aliases has just been removed
C10_Witness ==
    /\ lastOp.op = "remove" /\ lastOp.reply = "removed"
    /\ Len(store) = 2
    /\ store[1].name = NameHi
    /\ store[2].name = NameEmpty

(***************************************************************************)
(* C11: an alias.add of a name the table already holds replaces that       *)
(* entry's command list where it stands: the table keeps its length, every *)
(* position keeps its name, every other entry is unchanged, and the reply  *)
(* is "updated".  An alias.add of a new name leaves every existing entry   *)
(* where it was, puts the new entry after them, and the reply is "added".  *)
(***************************************************************************)
C11_AddStep(name, commands) ==
    LET cmds == GroupTokens(ShlexSplit(commands).out)
        at == PositionsOf(store, name)
    IN
    (alias_add(name, commands) /\ commands # <<>> /\ ~ShlexSplit(commands).err) =>
        /\ at # {} =>
              /\ lastOp'.reply = "updated"
              /\ Len(store') = Len(store)
              /\ \A i \in 1..Len(store) :
                    /\ store'[i].name = store[i].name
                    /\ i \notin at => store'[i] = store[i]
                    /\ i \in at => store'[i].commands = cmds
        /\ at = {} =>
              /\ lastOp'.reply = "added"
              /\ Len(store') = Len(store) + 1
              /\ \A i \in 1..Len(store) : store'[i] = store[i]
              /\ store'[Len(store')] = [name |-> name, commands |-> cmds]

\* C11: an update keeps the entry's position and the other entries, an
\* insertion goes after every existing entry
C11_UpdateInPlace ==
    [][\A name \in AddNames, commands \in AddCommands : C11_AddStep(name, commands)]_vars

\* an alias of a three-entry table has just been given other commands
C11_Witness ==
    /\ lastOp.op = "add" /\ lastOp.reply = "updated"
    /\ Len(store) = 3
    /\ store[1].name = NameHi
    /\ store[2].name = NameA
    /\ store[3].name = NameEmpty
    /\ store[2].commands # store[3].commands

(***************************************************************************)
(* C12: an alias.add whose name is empty, or whose commands are empty or   *)
(* split into no command at all, is refused: the reply is an error, the    *)
(* table stays as it was and no save is started, so the file stays too.    *)
(***************************************************************************)
C12_Invalid(name, commands) ==
    \/ name = <<>>
    \/ commands = <<>>
    \/ ~ShlexSplit(commands).err /\ GroupTokens(ShlexSplit(commands).out) = <<>>

C12_AddStep(name, commands) ==
    (alias_add(name, commands) /\ C12_Invalid(name, commands)) =>
        /\ lastOp'.reply \notin {"added", "updated"}
        /\ store' = store
        /\ file' = file
        /\ pendingSaves' = pendingSaves

\* C12: every alias.add step with an invalid name or invalid commands is refused
C12_InvalidAddRefused ==
    [][\A name \in AddNames, commands \in AddCommands : C12_AddStep(name, commands)]_vars

(***************************************************************************)
(* C13: in every state that alias.add and alias.remove calls reach from an *)
(* empty table, every entry has a non-empty name and a non-empty command   *)
(* list whose elements are all non-empty strings.                          *)
(***************************************************************************)
C13_EntryWellFormed(alias) ==
    /\ alias.name # <<>>
    /\ alias.commands # <<>>
    /\ \A k \in 1..Len(alias.commands) : alias.commands[k] # <<>>

\* C13: every entry of the table has a name, a command, and no empty command
C13_WellFormedTable == \A i \in 1..Len(store) : C13_EntryWellFormed(store[i])

(***************************************************************************)
(* C14: for every table that alias.add and alias.remove calls reach, a     *)
(* save_alias_store that completes followed by load_alias_store, with no   *)
(* other write in between, gives back the same entries in the same order,  *)
(* each with the same name and the same commands in the same order.        *)
(***************************************************************************)
C14_Saved == save_alias_store(file, store, "ok")

\* C14: loading what a completed save wrote gives the table that was saved
C14_SaveLoadRoundTrip ==
    /\ Len(load_alias_store(C14_Saved)) = Len(store)
    /\ \A i \in 1..Len(store) :
          /\ load_alias_store(C14_Saved)[i].name = store[i].name
          /\ load_alias_store(C14_Saved)[i].commands = store[i].commands

\* a two-entry table whose second entry holds a quote and a backslash is on disk
C14_Witness ==
    /\ lastSave = "ok"
    /\ file = C14_Saved
    /\ Len(store) = 2
    /\ store[2].commands # <<>>
    /\ \E j \in 1..Len(store[2].commands[1]) :
          /\ store[2].commands[1][j] = DQ
          /\ \E n \in 1..Len(store[2].commands[1]) : store[2].commands[1][n] = BS

(***************************************************************************)
(* C15: an alias.add whose commands string has a quote that is never       *)
(* closed ends with a plain-text error reply: no exception leaves the      *)
(* handler, and the table and the file stay as they were.                  *)
(***************************************************************************)
C15_AddStep(name, commands) ==
    (alias_add(name, commands) /\ ShlexSplit(commands).err) =>
        /\ lastOp'.reply # "raised"
        /\ store' = store
        /\ file' = file
        /\ pendingSaves' = pendingSaves

\* C15: every alias.add step over a malformed commands string ends with a reply
C15_MalformedReplied ==
    [][\A name \in AddNames, commands \in AddCommands : C15_AddStep(name, commands)]_vars

(***************************************************************************)
(* C16: what alias.add stores for the commands string                      *)
(*     cmd1 "arg with space" ; /cmd2                                       *)
(***************************************************************************)
\* cmd1 "arg with space"
C16_QuotedCommand ==
    <<"c", "m", "d", "1", " ", DQ, "a", "r", "g", " ", "w", "i", "t", "h", " ", "s", "p", "a", "c", "e", DQ>>
\* cmd1 arg with space ;
C16_JoinedCommand ==
    <<"c", "m", "d", "1", " ", "a", "r", "g", " ", "w", "i", "t", "h", " ", "s", "p", "a", "c", "e", " ", ";">>
C16_Cmd2 == <<"/", "c", "m", "d", "2">>

C16_AddStores(cmds) ==
    \A outcome \in TokenOutcomes :
        alias_add_run(NameA, CmdQuoted, outcome) =>
            /\ lastOp'.reply \in {"added", "updated"}
            /\ PositionsOf(store', NameA) # {}
            /\ \A i \in PositionsOf(store', NameA) : store'[i].commands = cmds

\* C16 as stated: the two commands are cmd1 "arg with space", the quotes
\* kept, and /cmd2
C16_QuotesKept == [][C16_AddStores(<<C16_QuotedCommand, C16_Cmd2>>)]_vars

\* C16 as the code has it: the two commands are cmd1 arg with space ; (the
\* quotes removed, the ";" an ordinary token of the first command) and /cmd2
C16_QuotesRemoved == [][C16_AddStores(<<C16_JoinedCommand, C16_Cmd2>>)]_vars

\* the alias has just been added with that commands string
C16_Witness ==
    /\ lastOp.op = "add"
    /\ \E i \in PositionsOf(store, NameA) :
          store[i].commands = <<C16_JoinedCommand, C16_Cmd2>>

(***************************************************************************)
(* C17: whenever no alias.add or alias.remove handler is between its reply *)
(* and its save and the last write did not fail, the file holds exactly    *)
(* the table in memory, whatever the interleaving of the handlers; a write *)
(* that fails leaves the table in memory as it is, and every write that    *)
(* completes writes the whole table of that moment.                        *)
(***************************************************************************)
\* no handler is suspended before its save and the last write, if any, completed
C17_Holds(f, table, pending, last) ==
    (pending = 0 /\ last \in {"none", "ok"}) =>
        /\ load_alias_store(f) = table
        /\ last = "ok" => f.state = "ok"

\* a step in which a suspended handler ran its save
C17_SaveStep ==
    pendingSaves' < pendingSaves =>
        /\ store' = store
        /\ lastSave' = "ok" => file'.state = "ok" /\ load_alias_store(file') = store

\* C17: the file holds the table at every quiescent point after a good write,
\* a failed write leaves the table in memory, and every write that completes
\* writes the whole table
C17_FileFollowsTable ==
    /\ C17_Holds(file, store, pendingSaves, lastSave)
    /\ [][/\ C17_Holds(file', store', pendingSaves', lastSave')
          /\ C17_SaveStep]_vars

\* three aliases in memory and on disk after an update, no handler suspended
C17_Witness ==
    /\ pendingSaves = 0
    /\ lastSave = "ok"
    /\ lastOp.reply = "updated"
    /\ Len(store) = 3
    /\ file.state = "ok"

(***************************************************************************)
(* C18: a save is atomic with respect to interruption: when the file held  *)
(* a complete table before a save_alias_store call, it holds a complete    *)
(* table after it however the write ended, the previous one or the new     *)
(* one, so a load never falls back to the empty table in between.          *)
(***************************************************************************)
C18_SaveStep ==
    (pendingSaves' < pendingSaves /\ file.state = "ok") =>
        /\ file'.state = "ok"
        /\ load_alias_store(file') \in {load_alias_store(file), store}

\* C18: every save step leaves the previous table or the new table on disk
C18_AtomicSave == [][C18_SaveStep]_vars

(***************************************************************************)
(* C19: an expansion never sees a torn alias: when alias.add updates the   *)
(* matched alias, or alias.remove removes it, while on_message is          *)
(* suspended at a queue put, the commands the call emits are, in order,    *)
(* the expansions of the command list the alias had when it was matched.   *)
(***************************************************************************)
\* the command list of the alias call i matched, as the table had it then
C19_MatchedCommands(i) == calls[i].table[calls[i].matched].commands

\* C19: every call emits the expansion of the command list it matched
C19_NoTornExpansion ==
    \A i \in CallIds :
        calls[i].matched # 0 =>
            /\ Len(PutsOf(i)) <= Len(C19_MatchedCommands(i))
            /\ calls[i].pc = "done" => Len(PutsOf(i)) = Len(C19_MatchedCommands(i))
            /\ \A n \in 1..Len(PutsOf(i)) :
                  TextsOf(i)[n] = FullCommand(C19_MatchedCommands(i)[n],
                                              calls[i].remaining_args)

\* a call is suspended after the first of its two puts, and the alias it
\* matched has since been given other commands or been removed
C19_Witness ==
    \E i \in CallIds :
        /\ calls[i].matched # 0
        /\ calls[i].pc = "put"
        /\ Len(PutsOf(i)) = 1
        /\ Len(C19_MatchedCommands(i)) = 2
        /\ \A j \in PositionsOf(store, calls[i].alias_name) :
              store[j].commands # C19_MatchedCommands(i)

(***************************************************************************)
(* C20: how alias.add groups the tokens of its commands string into        *)
(* commands.                                                               *)
(***************************************************************************)
\* the tokens joined by single spaces
RECURSIVE C20_Join(_)
C20_Join(tokens) ==
    IF tokens = <<>> THEN <<>>
    ELSE IF Len(tokens) = 1 THEN tokens[1]
    ELSE tokens[1] \o <<" ">> \o C20_Join(Tail(tokens))

\* the positions at which a command starts: the first token, and every later
\* token that begins with "/"
C20_Starts(tokens) ==
    {i \in 1..Len(tokens) : i = 1 \/ IsPrefix(<<"/">>, tokens[i])}

\* the tokens cut at those positions, every token exactly once, in order
C20_Groups(tokens) ==
    LET starts == C20_Starts(tokens)
        startOf(k) == CHOOSE i \in starts : Cardinality({j \in starts : j <= i}) = k
        endOf(k) == IF k = Cardinality(starts) THEN Len(tokens) ELSE startOf(k + 1) - 1
    IN  [k \in 1..Cardinality(starts) |-> SubSeq(tokens, startOf(k), endOf(k))]

\* the tokens without the empty tokens at their front
RECURSIVE C20_DropEmpty(_)
C20_DropEmpty(tokens) ==
    IF tokens # <<>> /\ Head(tokens) = <<>> THEN C20_DropEmpty(Tail(tokens)) ELSE tokens

\* the commands the last successful alias.add stored, and the tokens of its
\* commands string
C20_Stored == store[CHOOSE i \in PositionsOf(store, NameA) : TRUE].commands
C20_Tokens == ShlexSplit(lastOp.commands).out
C20_Added ==
    /\ lastOp.op = "add"
    /\ lastOp.reply \in {"added", "updated"}
    /\ PositionsOf(store, NameA) # {}

C20_SlashAfterFirst ==
    \A k \in 2..Len(C20_Stored) : IsPrefix(<<"/">>, C20_Stored[k])

\* C20 as stated: a command starts at each token beginning with "/" that is
\* not the first token, each command is its tokens joined by single spaces,
\* and every command but the first begins with "/"
C20_GroupedAndJoined ==
    C20_Added =>
        /\ Len(C20_Stored) = Len(C20_Groups(C20_Tokens))
        /\ \A k \in 1..Len(C20_Stored) : C20_Stored[k] = C20_Join(C20_Groups(C20_Tokens)[k])
        /\ C20_SlashAfterFirst

\* C20 as the code has it: empty tokens at the front are dropped first, and
\* each command is its tokens joined by single spaces and then stripped of
\* the whitespace at its ends
C20_GroupedJoinedStripped ==
    C20_Added =>
        LET groups == C20_Groups(C20_DropEmpty(C20_Tokens)) IN
        /\ Len(C20_Stored) = Len(groups)
        /\ \A k \in 1..Len(C20_Stored) : C20_Stored[k] = Strip(C20_Join(groups[k]))
        /\ C20_SlashAfterFirst

\* /provider 2 /reset has just been stored as /provider 2 and /reset
C20_Witness ==
    /\ C20_Added
    /\ lastOp.commands = CmdProvider
    /\ C20_Stored = <<<<"/", "p", "r", "o", "v", "i", "d", "e", "r", " ", "2">>, <<"/", "r", "e", "s", "e", "t">>>>

====
